---- MODULE Spec2Model ----
(***************************************************************************)
(* State-machine model of the ViralVision orchestration component          *)
(* (src/App.tsx) and of the gateway calls it awaits                         *)
(* (src/services/geminiService.ts).                                         *)
(*                                                                          *)
(* Every `await` of a handler is a suspension point: the synchronous code   *)
(* between two awaits is one action.  React state is the set of variables   *)
(* below; a handler reads the values of the render that was on screen when  *)
(* it was called, which at the moment of the call are the current values.   *)
(* Rendering is modelled only as far as it can fail: a state update is      *)
(* followed by a render, and a render that throws unmounts the component    *)
(* and with it the modelled state, so the behaviour ends there ("crashed"). *)
(***************************************************************************)
EXTENDS Integers, Sequences, FiniteSets, TLC

\* ------------------------------------------------------------------ bounds
MaxOps == 3            \* user operations started after startup
MaxTicks == 1          \* advances of the wall clock that are observed
ConceptsPerBatch == 2  \* concepts in a non-empty backend batch

\* --------------------------------------------------------------- constants
HISTORY_CAP == 20
PLATFORMS == {"YouTube", "Instagram", "Twitter", "Pinterest"}
DefaultPlatform == "YouTube"

Min(a, b) == IF a < b THEN a ELSE b

\* ------------------------------------------------------------------ values
Null == [kind |-> "null"]
EmptyObject == [kind |-> "empty"]
Truthy(v) == v.kind # "null"

ImageFile == [name |-> "photo", mime |-> [top |-> "image", sub |-> "png"]]
VideoFile == [name |-> "clip", mime |-> [top |-> "video", sub |-> "mp4"]]
Files == {ImageFile, VideoFile}

MediaType(file) == IF file.mime.top = "video" THEN "video" ELSE "image"

MediaState(file) == [kind |-> "media", file |-> file.name, type |-> MediaType(file)]

\* the backend's answers, tagged with the request they answer
AnalysisOf(file) ==
  [kind |-> "analysis", summary |-> file.name, keyScenes |-> <<file.name>>]

SeoOf(an, p) == [kind |-> "seo", summary |-> an.summary, platform |-> p]

ConceptsOf(an) ==
  [n \in 1..ConceptsPerBatch |->
     [prompt |-> [kind |-> "prompt", summary |-> an.summary, n |-> n],
      style |-> n]]

ImageOf(prompt) == [kind |-> "image", prompt |-> prompt]

HasKeyScenes(an) == an.kind = "analysis"
HasControversies(an) == an.kind = "analysis"
HasHooks(s) == s.kind = "seo"

\* the JSX dereferences analysis.controversies.length and seo.hooks.map
RenderThrows(an, s) ==
  \/ Truthy(an) /\ ~HasControversies(an)
  \/ Truthy(s) /\ ~HasHooks(s)

\* what each gateway function resolves to for a backend outcome
StageOutcomes == {"ok", "empty", "fail"}
RenderOutcomes == {"ok", "noimage", "fail"}

AnalyzeResult(file, o) == IF o = "ok" THEN AnalysisOf(file) ELSE EmptyObject
SeoResult(an, p, o) == IF o = "ok" THEN SeoOf(an, p) ELSE EmptyObject
ThumbResult(an, o) == IF o = "ok" THEN ConceptsOf(an) ELSE <<>>

\* the data URL built from the first inlineData part of the response
RenderResult(prompt, o) == IF o = "ok" THEN ImageOf(prompt) ELSE Null

RenderRejectsOnTransportOnly(o) == o = "fail"

\* generateNanoBananaImage throws when no part carries inlineData
RenderRejects(o) == o \in {"noimage", "fail"}

\* ----------------------------------------------------------------- history
Slice(arr, from, to) == SubSeq(arr, from + 1, Min(to, Len(arr)))

InsertNoTruncate(prev, item) == <<item>> \o prev

InsertAtTail(prev, item) == Slice(prev \o <<item>>, 0, HISTORY_CAP)

InsertRecord(prev, item) == Slice(<<item>> \o prev, 0, HISTORY_CAP)

HistoryItem(now, type, an, p, seoRes, concepts) ==
  [id |-> ToString(now), timestamp |-> now, mediaType |-> type,
   mediaSummary |-> an.summary, platform |-> p, analysis |-> an,
   seo |-> seoRes, thumbnailConcepts |-> concepts]

ItemKeys ==
  <<"id", "timestamp", "mediaType", "mediaSummary", "platform", "analysis",
    "seo", "thumbnailConcepts">>

StringifyItem(item) == [k \in 1..Len(ItemKeys) |-> <<ItemKeys[k], item[ItemKeys[k]]>>]

Stringify(h) == [kind |-> "json", items |-> [i \in 1..Len(h) |-> StringifyItem(h[i])]]

Member(text, key) == (CHOOSE k \in 1..Len(text) : text[k][1] = key)

ParseItem(text) == [key \in {ItemKeys[k] : k \in 1..Len(ItemKeys)} |-> text[Member(text, key)][2]]

ParseNewestLast(blob) ==
  [i \in 1..Len(blob.items) |-> ParseItem(blob.items[Len(blob.items) - i + 1])]

Parse(blob) == [i \in 1..Len(blob.items) |-> ParseItem(blob.items[i])]

Parses(blob) == blob.kind = "json"

\* logs an earlier session of the program can have persisted
PriorItem(n) ==
  HistoryItem(n, "image", AnalysisOf([name |-> "old", mime |-> ImageFile.mime]),
              DefaultPlatform,
              SeoOf(AnalysisOf([name |-> "old", mime |-> ImageFile.mime]), DefaultPlatform),
              ConceptsOf(AnalysisOf([name |-> "old", mime |-> ImageFile.mime])))

PriorLog(n) == [i \in 1..n |-> PriorItem(n - i + 1)]

CorruptBlob == [kind |-> "corrupt"]

\* the key absent, or holding text that is not JSON
InitBlobs == {Null, CorruptBlob}

\* the key as an earlier session left it, the log one short of full
RestoredBlobs == {Stringify(PriorLog(HISTORY_CAP - 1))}

StartClock == HISTORY_CAP + 1

\* --------------------------------------------------------------- variables
VARIABLES
  app,                \* "mounting" | "ready" | "crashed"
  media, loadingStep, analysis, platform, seo, thumbnailConcepts,
  generatedThumbnail, activePrompt, genImgLoading, history, showVault,
  storage,            \* the blob under key 'viralvision_v2'
  clock,              \* the last reading of Date.now()
  runs,               \* processFlow invocations
  changes,            \* handlePlatformChange invocations
  forges,             \* handleForgeThumbnail invocations
  nOps,               \* user operations started
  nRecalls            \* vault items clicked

held == <<media, loadingStep, analysis, platform, seo, thumbnailConcepts,
          generatedThumbnail, activePrompt, genImgLoading, history, showVault>>

vars == <<app, media, loadingStep, analysis, platform, seo, thumbnailConcepts,
          generatedThumbnail, activePrompt, genImgLoading, history, showVault,
          storage, clock, runs, changes, forges, nOps, nRecalls>>

SeoRequest(an, p) == [analysis |-> an, platform |-> p]

Call(fn, arg) == [ev |-> "call", fn |-> fn, val |-> arg]
Settle(fn, o, val) == [ev |-> "settle", fn |-> fn, outcome |-> o, val |-> val]

RejectsNever(o) == FALSE

\* a gateway promise rejects on a transport error or unparseable text; an
\* empty response text parses to the default literal instead
Rejects(o) == o = "fail"

Fresh ==
  /\ app = "mounting"
  /\ media = Null
  /\ loadingStep = "idle"
  /\ analysis = Null
  /\ platform = DefaultPlatform
  /\ seo = Null
  /\ thumbnailConcepts = <<>>
  /\ generatedThumbnail = Null
  /\ activePrompt = Null
  /\ genImgLoading = FALSE
  /\ history = <<>>
  /\ showVault = FALSE
  /\ clock = StartClock
  /\ runs = <<>>
  /\ changes = <<>>
  /\ forges = <<>>
  /\ nOps = 0
  /\ nRecalls = 0

Init == Fresh /\ storage \in InitBlobs

InitRestored == Fresh /\ storage \in RestoredBlobs

\* ----------------------------------------------------------------- startup
\* the two mount effects, then the persist effect of the render that
\* follows setHistory
Mount ==
  /\ app = "mounting"
  /\ IF ~Truthy(storage)
       THEN /\ app' = "ready"
            /\ history' = history
            /\ storage' = Stringify(history)
       ELSE IF Parses(storage)
         THEN /\ app' = "ready"
              /\ history' = Parse(storage)
              /\ storage' = Stringify(Parse(storage))
         ELSE /\ app' = "crashed"
              /\ history' = history
              /\ storage' \in {storage, Stringify(history)}
  /\ UNCHANGED <<media, loadingStep, analysis, platform, seo, thumbnailConcepts,
                 generatedThumbnail, activePrompt, genImgLoading, showVault,
                 clock, runs, changes, forges, nOps, nRecalls>>

OpenVault ==
  /\ app = "ready"
  /\ nOps < MaxOps
  /\ ~showVault
  /\ showVault' = TRUE
  /\ nOps' = nOps + 1
  /\ UNCHANGED <<app, media, loadingStep, analysis, platform, seo,
                 thumbnailConcepts, generatedThumbnail, activePrompt,
                 genImgLoading, history, storage, clock, runs, changes, forges,
                 nRecalls>>

CloseVault ==
  /\ app = "ready"
  /\ nOps < MaxOps
  /\ showVault
  /\ showVault' = FALSE
  /\ nOps' = nOps + 1
  /\ UNCHANGED <<app, media, loadingStep, analysis, platform, seo,
                 thumbnailConcepts, generatedThumbnail, activePrompt,
                 genImgLoading, history, storage, clock, runs, changes, forges,
                 nRecalls>>

\* Date.now(): the clock has not gone back since it was last read
Now == clock..Min(clock + 1, StartClock + MaxTicks)

\* the render that follows an update of the result slots
Rendered == app' = IF RenderThrows(analysis', seo') THEN "crashed" ELSE "ready"

\* ------------------------------------------------------------ processFlow
NewRun(file, p) ==
  [file |-> file, selectedPlatform |-> p, type |-> MediaType(file),
   pc |-> "reading", analysisRes |-> Null, seoRes |-> Null,
   inserted |-> FALSE, log |-> <<>>]

\* file input onChange: runs up to `await fileToBase64(file)`
Submit(file) ==
  /\ app = "ready"
  /\ nOps < MaxOps
  /\ runs' = Append(runs, NewRun(file, platform))
  /\ nOps' = nOps + 1
  /\ UNCHANGED <<app, held, storage, clock, changes, forges, nRecalls>>

ReadFailedResets(i) ==
  /\ runs' = [runs EXCEPT ![i].pc = "aborted"]
  /\ loadingStep' = "idle"
  /\ UNCHANGED <<app, media, analysis, platform, seo, thumbnailConcepts,
                 generatedThumbnail, activePrompt, genImgLoading, history,
                 showVault, storage, clock, changes, forges, nOps, nRecalls>>

\* reader.onerror: the await rejects before the try block
ReadFailed(i) ==
  /\ runs' = [runs EXCEPT ![i].pc = "aborted"]
  /\ UNCHANGED <<app, held, storage, clock, changes, forges, nOps, nRecalls>>

\* reader.onload: reset, enter the try block, call analyzeMedia
ReadLoaded(i) ==
  /\ media' = MediaState(runs[i].file)
  /\ analysis' = Null
  /\ seo' = Null
  /\ thumbnailConcepts' = <<>>
  /\ generatedThumbnail' = Null
  /\ loadingStep' = "analyzing"
  /\ runs' = [runs EXCEPT ![i].pc = "analyzing",
                          ![i].log = Append(@, Call("analyzeMedia", runs[i].file.name))]
  /\ UNCHANGED <<app, platform, activePrompt, genImgLoading, history, showVault,
                 storage, clock, changes, forges, nOps, nRecalls>>

ReadDone(i, ok) ==
  /\ app = "ready"
  /\ runs[i].pc = "reading"
  /\ IF ok THEN ReadLoaded(i) ELSE ReadFailed(i)

StageFailedNoReset(i, fn) ==
  /\ loadingStep' = loadingStep
  /\ runs' = [runs EXCEPT ![i].pc = "failed",
                          ![i].log = Append(@, Settle(fn, "fail", Null))]

\* catch + finally of processFlow
StageFailed(i, fn) ==
  /\ loadingStep' = "idle"
  /\ runs' = [runs EXCEPT ![i].pc = "failed",
                          ![i].log = Append(@, Settle(fn, "fail", Null))]

StageInputHeld(run) == analysis

\* the argument processFlow passes to stages 2 and 3
StageInput(run) == run.analysisRes

AnalyzeDone(i, o) ==
  /\ app = "ready"
  /\ runs[i].pc = "analyzing"
  /\ IF Rejects(o)
       THEN /\ StageFailed(i, "analyzeMedia")
            /\ UNCHANGED analysis
       ELSE LET res == AnalyzeResult(runs[i].file, o)
                run == [runs[i] EXCEPT !.analysisRes = res,
                          !.log = Append(@, Settle("analyzeMedia", o, res))]
                called == [run EXCEPT
                          !.log = Append(@, Call("generateSEO", SeoRequest(StageInput(run), run.selectedPlatform)))]
            IN /\ analysis' = res
               /\ IF HasKeyScenes(StageInput(run))
                    THEN /\ loadingStep' = "optimizing"
                         /\ runs' = [runs EXCEPT ![i] = [called EXCEPT !.pc = "optimizing"]]
                    ELSE \* generateSEO throws on analysis.keyScenes.join
                         /\ loadingStep' = "idle"
                         /\ runs' = [runs EXCEPT ![i] = [called EXCEPT !.pc = "failed",
                               !.log = Append(@, Settle("generateSEO", "fail", Null))]]
  /\ UNCHANGED <<media, platform, seo, thumbnailConcepts, generatedThumbnail,
                 activePrompt, genImgLoading, history, showVault, storage, clock,
                 changes, forges, nOps, nRecalls>>
  /\ Rendered

SeoDone(i, o) ==
  /\ app = "ready"
  /\ runs[i].pc = "optimizing"
  /\ IF Rejects(o)
       THEN /\ StageFailed(i, "generateSEO")
            /\ UNCHANGED seo
       ELSE LET res == SeoResult(runs[i].analysisRes, runs[i].selectedPlatform, o)
                run == [runs[i] EXCEPT !.seoRes = res,
                          !.log = Append(@, Settle("generateSEO", o, res))]
            IN /\ seo' = res
               /\ loadingStep' = "visualizing"
               /\ runs' = [runs EXCEPT ![i] = [run EXCEPT !.pc = "visualizing",
                     !.log = Append(@, Call("generateThumbnailPrompts", StageInput(run)))]]
  /\ UNCHANGED <<media, analysis, platform, thumbnailConcepts,
                 generatedThumbnail, activePrompt, genImgLoading, history,
                 showVault, storage, clock, changes, forges, nOps, nRecalls>>
  /\ Rendered

ThumbDoneSuperseded(i, o) ==
  /\ app = "ready"
  /\ runs[i].pc = "visualizing"
  /\ IF Rejects(o)
       THEN /\ StageFailed(i, "generateThumbnailPrompts")
            /\ UNCHANGED <<thumbnailConcepts, history, storage, clock>>
       ELSE LET res == ThumbResult(runs[i].analysisRes, o)
                item == HistoryItem(clock', runs[i].type, runs[i].analysisRes,
                                    runs[i].selectedPlatform, runs[i].seoRes, res)
            IN /\ clock' \in Now
               /\ thumbnailConcepts' = IF i < Len(runs) THEN thumbnailConcepts ELSE res
               /\ history' = IF i < Len(runs) THEN history ELSE InsertRecord(history, item)
               /\ storage' = Stringify(history')
               /\ loadingStep' = "idle"
               /\ runs' = [runs EXCEPT ![i].pc = "done", ![i].inserted = ~(i < Len(runs)),
                     ![i].log = Append(@, Settle("generateThumbnailPrompts", o, res))]
  /\ UNCHANGED <<app, media, analysis, platform, seo, generatedThumbnail,
                 activePrompt, genImgLoading, showVault, changes, forges, nOps,
                 nRecalls>>

ThumbDone(i, o) ==
  /\ app = "ready"
  /\ runs[i].pc = "visualizing"
  /\ IF Rejects(o)
       THEN /\ StageFailed(i, "generateThumbnailPrompts")
            /\ UNCHANGED <<thumbnailConcepts, history, storage, clock>>
       ELSE LET res == ThumbResult(runs[i].analysisRes, o)
                item == HistoryItem(clock', runs[i].type, runs[i].analysisRes,
                                    runs[i].selectedPlatform, runs[i].seoRes, res)
            IN /\ clock' \in Now
               /\ thumbnailConcepts' = res
               /\ history' = InsertRecord(history, item)
               /\ storage' = Stringify(history')
               /\ loadingStep' = "idle"
               /\ runs' = [runs EXCEPT ![i].pc = "done", ![i].inserted = TRUE,
                     ![i].log = Append(@, Settle("generateThumbnailPrompts", o, res))]
  /\ UNCHANGED <<app, media, analysis, platform, seo, generatedThumbnail,
                 activePrompt, genImgLoading, showVault, changes, forges, nOps,
                 nRecalls>>

\* --------------------------------------------------- handlePlatformChange
NewChange(p, an) == [platform |-> p, analysis |-> an, pc |-> "done", log |-> <<>>]

PlatformChange(p) ==
  /\ app = "ready"
  /\ nOps < MaxOps
  /\ nOps' = nOps + 1
  /\ platform' = p
  /\ IF Truthy(analysis)
       THEN LET op == [NewChange(p, analysis) EXCEPT
                         !.log = <<Call("generateSEO", SeoRequest(analysis, p))>>]
            IN /\ loadingStep' = "optimizing"
               /\ IF HasKeyScenes(analysis)
                    THEN changes' = Append(changes, [op EXCEPT !.pc = "optimizing"])
                    ELSE \* generateSEO throws on analysis.keyScenes.join
                         changes' = Append(changes, [op EXCEPT !.pc = "rejected",
                             !.log = Append(@, Settle("generateSEO", "fail", Null))])
       ELSE /\ loadingStep' = loadingStep
            /\ changes' = Append(changes, NewChange(p, analysis))
  /\ UNCHANGED <<app, media, analysis, seo, thumbnailConcepts, generatedThumbnail,
                 activePrompt, genImgLoading, history, showVault, storage, clock,
                 runs, forges, nRecalls>>

PlatformDoneClearing(j, o) ==
  /\ app = "ready"
  /\ changes[j].pc = "optimizing"
  /\ seo' = SeoResult(changes[j].analysis, changes[j].platform, o)
  /\ thumbnailConcepts' = <<>>
  /\ loadingStep' = "idle"
  /\ changes' = [changes EXCEPT ![j].pc = IF Rejects(o) THEN "rejected" ELSE "done",
        ![j].log = Append(@, Settle("generateSEO", o, seo'))]
  /\ UNCHANGED <<media, analysis, platform, generatedThumbnail, activePrompt,
                 genImgLoading, history, showVault, storage, clock, runs, forges,
                 nOps, nRecalls>>
  /\ Rendered

PlatformDone(j, o) ==
  /\ app = "ready"
  /\ changes[j].pc = "optimizing"
  /\ IF Rejects(o)
       THEN \* no handler: the rest of handlePlatformChange never runs
            /\ changes' = [changes EXCEPT ![j].pc = "rejected",
                  ![j].log = Append(@, Settle("generateSEO", "fail", Null))]
            /\ UNCHANGED <<seo, loadingStep>>
       ELSE LET res == SeoResult(changes[j].analysis, changes[j].platform, o)
            IN /\ seo' = res
               /\ loadingStep' = "idle"
               /\ changes' = [changes EXCEPT ![j].pc = "done",
                     ![j].log = Append(@, Settle("generateSEO", o, res))]
  /\ UNCHANGED <<media, analysis, platform, thumbnailConcepts,
                 generatedThumbnail, activePrompt, genImgLoading, history,
                 showVault, storage, clock, runs, forges, nOps, nRecalls>>
  /\ Rendered

\* --------------------------------------------------- handleForgeThumbnail
\* the prompts of the concept cards on screen
ForgeablePrompts ==
  IF Truthy(seo)
    THEN {thumbnailConcepts[k].prompt : k \in 1..Len(thumbnailConcepts)}
    ELSE {}

Forge(prompt) ==
  /\ app = "ready"
  /\ nOps < MaxOps
  /\ nOps' = nOps + 1
  /\ genImgLoading' = TRUE
  /\ activePrompt' = prompt
  /\ forges' = Append(forges, [prompt |-> prompt, pc |-> "rendering",
                               log |-> <<Call("generateNanoBananaImage", prompt)>>])
  /\ UNCHANGED <<app, media, loadingStep, analysis, platform, seo,
                 thumbnailConcepts, generatedThumbnail, history, showVault,
                 storage, clock, runs, changes, nRecalls>>

ForgeDoneIdles(k, o) ==
  /\ app = "ready"
  /\ forges[k].pc = "rendering"
  /\ generatedThumbnail' = IF o = "ok" THEN ImageOf(forges[k].prompt)
                                       ELSE generatedThumbnail
  /\ forges' = [forges EXCEPT ![k].pc = IF o = "ok" THEN "done" ELSE "failed",
        ![k].log = Append(@, Settle("generateNanoBananaImage", o,
                                    IF o = "ok" THEN ImageOf(forges[k].prompt) ELSE Null))]
  /\ genImgLoading' = FALSE
  /\ loadingStep' = "idle"
  /\ UNCHANGED <<app, media, analysis, platform, seo, thumbnailConcepts,
                 activePrompt, history, showVault, storage, clock, runs, changes,
                 nOps, nRecalls>>

ForgeDone(k, o) ==
  /\ app = "ready"
  /\ forges[k].pc = "rendering"
  /\ IF RenderRejects(o)
       THEN /\ generatedThumbnail' = generatedThumbnail
            /\ forges' = [forges EXCEPT ![k].pc = "failed",
                  ![k].log = Append(@, Settle("generateNanoBananaImage", o, Null))]
       ELSE LET img == RenderResult(forges[k].prompt, o)
            IN /\ generatedThumbnail' = img
               /\ forges' = [forges EXCEPT ![k].pc = "done",
                     ![k].log = Append(@, Settle("generateNanoBananaImage", o, img))]
  /\ genImgLoading' = FALSE
  /\ UNCHANGED <<app, media, loadingStep, analysis, platform, seo,
                 thumbnailConcepts, activePrompt, history, showVault, storage,
                 clock, runs, changes, nOps, nRecalls>>

\* --------------------------------------------------------- vault item click
OrNull(v) == IF Truthy(v) THEN v ELSE Null

RecallKeepingPlatform(n) ==
  /\ app = "ready"
  /\ nOps < MaxOps
  /\ showVault
  /\ nOps' = nOps + 1
  /\ analysis' = history[n].analysis
  /\ seo' = OrNull(history[n].seo)
  /\ thumbnailConcepts' = history[n].thumbnailConcepts
  /\ showVault' = FALSE
  /\ nRecalls' = nRecalls + 1
  /\ UNCHANGED <<media, loadingStep, platform, generatedThumbnail, activePrompt,
                 genImgLoading, history, storage, clock, runs, changes, forges>>
  /\ Rendered

Recall(n) ==
  /\ app = "ready"
  /\ nOps < MaxOps
  /\ showVault
  /\ nOps' = nOps + 1
  /\ analysis' = history[n].analysis
  /\ seo' = OrNull(history[n].seo)
  /\ thumbnailConcepts' = history[n].thumbnailConcepts
  /\ platform' = history[n].platform
  /\ showVault' = FALSE
  /\ nRecalls' = nRecalls + 1
  /\ UNCHANGED <<media, loadingStep, generatedThumbnail, activePrompt,
                 genImgLoading, history, storage, clock, runs, changes, forges>>
  /\ Rendered

Next ==
  \/ Mount
  \/ OpenVault
  \/ CloseVault
  \/ \E f \in Files : Submit(f)
  \/ \E i \in 1..Len(runs), ok \in BOOLEAN : ReadDone(i, ok)
  \/ \E i \in 1..Len(runs), o \in StageOutcomes : AnalyzeDone(i, o)
  \/ \E i \in 1..Len(runs), o \in StageOutcomes : SeoDone(i, o)
  \/ \E i \in 1..Len(runs), o \in StageOutcomes : ThumbDone(i, o)
  \/ \E p \in PLATFORMS : PlatformChange(p)
  \/ \E j \in 1..Len(changes), o \in StageOutcomes : PlatformDone(j, o)
  \/ \E q \in ForgeablePrompts : Forge(q)
  \/ \E k \in 1..Len(forges), o \in RenderOutcomes : ForgeDone(k, o)
  \/ \E n \in 1..Len(history) : Recall(n)

Spec == Init /\ [][Next]_vars

SpecRestored == InitRestored /\ [][Next]_vars

\* ------------------------------------------------------------------ claims
Stages == <<"analyzeMedia", "generateSEO", "generateThumbnailPrompts">>

Last(q) == q[Len(q)]

Calls(log) == SelectSeq(log, LAMBDA e : e.ev = "call")

Settles(log) == SelectSeq(log, LAMBDA e : e.ev = "settle")

AllStagesSucceeded(run) ==
  LET st == Settles(run.log)
  IN /\ Len(st) = 3
     /\ \A k \in 1..3 : st[k].fn = Stages[k] /\ st[k].outcome # "fail"

InsertStep(i) == ~runs[i].inserted /\ runs'[i].inserted

Inserted == {i \in 1..Len(runs) : runs[i].inserted}

\* C1: a run inserts a RunRecord if and only if its analyzeMedia, generateSEO
\* and generateThumbnailPrompts calls all resolved, in that order; once the
\* application is started HistoryLog changes in exactly the steps in which a
\* run inserts, and the record at the head is that run's.
C1_RecordIffAllStagesSucceeded ==
  /\ [](\A i \in 1..Len(runs) : runs[i].inserted <=> AllStagesSucceeded(runs[i]))
  /\ [][app = "ready" =>
          /\ (history' # history) <=> (\E i \in 1..Len(runs) : InsertStep(i))
          /\ \A i \in 1..Len(runs) : InsertStep(i) =>
               /\ history'[1].analysis = runs'[i].analysisRes
               /\ history'[1].seo = runs'[i].seoRes
               /\ history'[1].thumbnailConcepts = Last(runs'[i].log).val]_vars

C1_Witness ==
  /\ Len(history) = 1
  /\ \E i \in 1..Len(runs) : runs[i].inserted
  /\ \E j \in 1..Len(runs) :
       runs[j].pc = "failed" /\ Last(runs[j].log).fn = "generateThumbnailPrompts"

\* C2: HistoryLog never holds more than 20 records, from the log restored at
\* startup onwards and after every insert.
C2_HistoryAtMostCap == Len(history) <= HISTORY_CAP

C2_Witness == Len(history) = HISTORY_CAP /\ Cardinality(Inserted) = 2

\* C3: an insert puts the new record at the head and keeps the earlier records
\* behind it in their order; at 20 records exactly the last one is dropped.
C3_InsertAtHeadEvictOldest ==
  [][\A i \in 1..Len(runs) : InsertStep(i) =>
       /\ history'[1].id = ToString(clock')
       /\ history'[1].analysis = runs[i].analysisRes
       /\ Len(history') = IF Len(history) < HISTORY_CAP THEN Len(history) + 1
                                                       ELSE HISTORY_CAP
       /\ \A k \in 2..Len(history') : history'[k] = history[k - 1]]_vars

C3_Witness ==
  /\ Len(history) = HISTORY_CAP
  /\ history[HISTORY_CAP] = PriorItem(2)
  /\ history[3] = PriorItem(HISTORY_CAP - 1)
  /\ history[1].id = ToString(StartClock + 1)

\* C4: a platform change made while an AnalysisResult is held issues exactly
\* one generateSEO call, for the held AnalysisResult and the new platform, and
\* no other gateway call; when that call resolves the SEOPackage is its result;
\* neither step changes the AnalysisResult, the concept batch or HistoryLog.
C4_PlatformChangeFrame ==
  [][/\ (Len(changes') = Len(changes) + 1 /\ Truthy(analysis)) =>
          LET op == changes'[Len(changes')]
          IN /\ op.analysis = analysis
             /\ op.platform = platform'
             /\ Calls(op.log) = <<Call("generateSEO", SeoRequest(analysis, platform'))>>
             /\ UNCHANGED <<runs, forges, analysis, thumbnailConcepts, history>>
     /\ \A j \in 1..Len(changes) :
          (changes[j].pc = "optimizing" /\ changes'[j].pc = "done") =>
            /\ seo' = Last(changes'[j].log).val
            /\ Last(changes'[j].log).outcome = "ok" =>
                 seo' = SeoOf(changes[j].analysis, changes[j].platform)
            /\ Calls(changes'[j].log) = Calls(changes[j].log)
            /\ UNCHANGED <<runs, forges, analysis, thumbnailConcepts, history>>]_vars

C4_Witness ==
  \E j \in 1..Len(changes) :
    /\ changes[j].pc = "done"
    /\ changes[j].platform = "Twitter"
    /\ analysis.kind = "analysis"
    /\ seo = SeoOf(analysis, "Twitter")
    /\ Len(thumbnailConcepts) = ConceptsPerBatch
    /\ Len(history) = 1
    /\ history[1].seo = SeoOf(analysis, DefaultPlatform)

\* C5: a run whose stage fails sets the phase to idle in that step, writes
\* nothing to HistoryLog, and makes no further gateway call.
C5_StageFailureShortCircuits ==
  /\ [](\A i \in 1..Len(runs) : runs[i].pc = "failed" =>
          /\ ~runs[i].inserted
          /\ Last(runs[i].log).ev = "settle"
          /\ Last(runs[i].log).outcome = "fail"
          /\ Len(SelectSeq(Settles(runs[i].log), LAMBDA e : e.outcome = "fail")) = 1)
  /\ [][\A i \in 1..Len(runs) :
          /\ (runs[i].pc # "failed" /\ runs'[i].pc = "failed") =>
               loadingStep' = "idle" /\ UNCHANGED <<history, storage>>
          /\ runs[i].pc = "failed" => runs'[i] = runs[i]]_vars

C5_Witness ==
  \E i \in 1..Len(runs) :
    /\ runs[i].pc = "failed"
    /\ Last(runs[i].log).fn = "generateSEO"
    /\ runs[i].analysisRes = AnalysisOf(runs[i].file)
    /\ loadingStep = "idle"
    /\ history = <<>>

\* C6: whenever the gateway call awaited by a run, a platform change or a forge
\* settles and ends the operation, the indicator the operation set is cleared:
\* the phase is idle (run, platform change), the render flag is false (forge).
C6_LoadingClearedOnSettle ==
  [][/\ \A i \in 1..Len(runs) :
          (runs[i].pc \in {"analyzing", "optimizing", "visualizing"}
             /\ runs'[i].pc \in {"done", "failed"}) => loadingStep' = "idle"
     /\ \A j \in 1..Len(changes) :
          (changes[j].pc = "optimizing" /\ changes'[j].pc # "optimizing") =>
             loadingStep' = "idle"
     /\ \A k \in 1..Len(forges) :
          (forges[k].pc = "rendering" /\ forges'[k].pc # "rendering") =>
             genImgLoading' = FALSE]_vars

\* C7: in a run's log, generateSEO is called only right after that run's
\* analyzeMedia resolved, generateThumbnailPrompts only right after its
\* generateSEO resolved, and both get the value that analyzeMedia resolved to.
C7_StagesInOrderOnOwnAnalysis ==
  \A i \in 1..Len(runs) :
    LET log == runs[i].log
        Resolved(k, fn) ==
          log[k].ev = "settle" /\ log[k].fn = fn /\ log[k].outcome # "fail"
    IN \A k \in 1..Len(log) :
         log[k].ev = "call" =>
           CASE log[k].fn = "analyzeMedia" -> k = 1
             [] log[k].fn = "generateSEO" ->
                  /\ k = 3
                  /\ Resolved(2, "analyzeMedia")
                  /\ log[k].val.analysis = log[2].val
             [] log[k].fn = "generateThumbnailPrompts" ->
                  /\ k = 5
                  /\ Resolved(2, "analyzeMedia")
                  /\ Resolved(4, "generateSEO")
                  /\ log[k].val = log[2].val
             [] OTHER -> FALSE

C7_Witness ==
  \E i, j \in 1..Len(runs) :
    /\ runs[i].pc = "done"
    /\ runs[j].pc = "visualizing"
    /\ runs[i].file # runs[j].file
    /\ analysis # runs[i].analysisRes

\* C8: the step of a submit-media that sets the phase to analyzing leaves the
\* AnalysisResult, the SEOPackage, the concept batch, the rendered thumbnail
\* and the prompt held with it all empty.
C8_SubmitClearsAllResults ==
  [][\A i \in 1..Len(runs) :
       (runs[i].pc = "reading" /\ runs'[i].pc = "analyzing") =>
         /\ loadingStep' = "analyzing"
         /\ analysis' = Null
         /\ seo' = Null
         /\ thumbnailConcepts' = <<>>
         /\ generatedThumbnail' = Null
         /\ activePrompt' = Null]_vars

\* C9: neither the submit-media step nor the failure of the file read changes
\* the phase, the media payload, the results, the rendered thumbnail or
\* HistoryLog, and a run whose read failed makes no gateway call.
C9_ReadFailureChangesNothing ==
  /\ [](\A i \in 1..Len(runs) : runs[i].pc = "aborted" =>
          runs[i].log = <<>> /\ ~runs[i].inserted)
  /\ [][/\ Len(runs') = Len(runs) + 1 => UNCHANGED <<held, storage>>
        /\ \A i \in 1..Len(runs) :
             /\ (runs[i].pc = "reading" /\ runs'[i].pc = "aborted") =>
                  UNCHANGED <<held, storage>>
             /\ runs[i].pc = "aborted" => runs'[i] = runs[i]]_vars

C9_Witness ==
  \E i \in 1..Len(runs) :
    /\ runs[i].pc = "aborted"
    /\ Truthy(analysis)
    /\ loadingStep = "optimizing"

\* C10: no step of a forge-thumbnail, start or settlement, success or failure,
\* changes the phase, the AnalysisResult, the SEOPackage, the concept batch or
\* HistoryLog.
C10_ForgeLeavesPipelineAlone ==
  [][forges' # forges =>
       UNCHANGED <<loadingStep, analysis, seo, thumbnailConcepts, history, storage>>]_vars

C10_Witness ==
  \E k \in 1..Len(forges) :
    /\ forges[k].pc = "failed"
    /\ loadingStep = "optimizing"
    /\ Truthy(seo)

\* C11: a renderImage response without an image payload makes the call fail,
\* and the forge that awaited it leaves the rendered thumbnail as it was.
C11_NoImageKeepsThumbnail ==
  [][\A k \in 1..Len(forges) :
       (forges[k].pc = "rendering" /\ forges'[k].pc # "rendering"
          /\ Last(forges'[k].log).outcome = "noimage") =>
         /\ forges'[k].pc = "failed"
         /\ Last(forges'[k].log).val = Null
         /\ generatedThumbnail' = generatedThumbnail
         /\ genImgLoading' = FALSE]_vars

C11_Witness ==
  \E k \in 1..Len(forges) :
    /\ forges[k].pc = "failed"
    /\ Last(forges[k].log).outcome = "noimage"
    /\ Truthy(generatedThumbnail)
    /\ generatedThumbnail.prompt # forges[k].prompt

\* C12: loading the history yields the empty sequence both when no blob is
\* stored and when the stored blob does not parse, and startup succeeds in
\* both cases.
C12_LoadNeverFails ==
  [][(app = "mounting" /\ (~Truthy(storage) \/ ~Parses(storage))) =>
       (app' = "ready" /\ history' = <<>>)]_vars

\* C13: whenever the program is running, the stored blob is the whole
\* history: loading it gives the held records, all of them, in the same
\* order; and the history held once startup has finished is the sequence an
\* earlier session left in the blob.
C13_StoredLogEqualsHeldLog ==
  /\ app = "ready" => (Parses(storage) /\ Parse(storage) = history)
  /\ (app = "ready" /\ Inserted = {}) => history = PriorLog(HISTORY_CAP - 1)

C13_Witness ==
  /\ app = "ready"
  /\ \E i \in 1..Len(runs) : runs[i].inserted /\ history[1].analysis = runs[i].analysisRes
  /\ Len(history) = HISTORY_CAP
  /\ history[2] = PriorItem(HISTORY_CAP - 1)
  /\ Parse(storage) = history

C15_IdsPairwiseDistinct ==
  \A m, n \in 1..Len(history) : m # n => history[m].id # history[n].id

\* the positions at which a step appended the settlement of an empty response
EmptySettled(old, new) ==
  {k \in (Len(old) + 1)..Len(new) : new[k].ev = "settle" /\ new[k].outcome = "empty"}

\* C16: an empty or missing backend response is a failure of the gateway call
\* that received it: the run stops at that stage, calls no later stage, stores
\* nothing for the stage and inserts no record; a platform change stores no
\* SEO package.
C16_EmptyResponseFailsStage ==
  [][/\ \A i \in 1..Len(runs) :
          EmptySettled(runs[i].log, runs'[i].log) # {} =>
            /\ runs'[i].pc = "failed"
            /\ Last(runs'[i].log).outcome = "empty"
            /\ ~runs'[i].inserted
            /\ UNCHANGED <<analysis, seo, thumbnailConcepts, history>>
     /\ \A j \in 1..Len(changes) :
          EmptySettled(changes[j].log, changes'[j].log) # {} =>
            /\ changes'[j].pc = "rejected"
            /\ UNCHANGED seo]_vars

\* C17: whenever a rendered thumbnail is held, the prompt held with it is the
\* prompt whose renderImage call produced it, also after a failed forge that
\* follows a successful one and when two forges overlap.
C17_ThumbnailPairedWithItsPrompt ==
  Truthy(generatedThumbnail) => generatedThumbnail = ImageOf(activePrompt)

\* the results a step of run i settled as resolved, for the stage fn
Resolved(i, fn) ==
  {runs'[i].log[k].val : k \in {m \in (Len(runs[i].log) + 1)..Len(runs'[i].log) :
      /\ runs'[i].log[m].ev = "settle"
      /\ runs'[i].log[m].fn = fn
      /\ runs'[i].log[m].outcome # "fail"}}

\* C18: nothing cancels a run: once a newer submit-media has started, each
\* stage result the older run still resolves is written to the shared slot,
\* the run's record is inserted when its third stage resolves, and the run
\* leaves a stage only when that stage's call settles.
C18_SupersededRunStillWrites ==
  [][\A i \in 1..Len(runs) : i < Len(runs) =>
       /\ \A res \in Resolved(i, "analyzeMedia") : analysis' = res
       /\ \A res \in Resolved(i, "generateSEO") : seo' = res
       /\ \A res \in Resolved(i, "generateThumbnailPrompts") :
            /\ thumbnailConcepts' = res
            /\ InsertStep(i)
            /\ history'[1].analysis = runs[i].analysisRes
            /\ history'[1].seo = runs[i].seoRes
            /\ history'[1].thumbnailConcepts = res
            /\ history'[1].platform = runs[i].selectedPlatform
       /\ (runs[i].pc \in {"analyzing", "optimizing", "visualizing"}
             /\ runs'[i].pc # runs[i].pc) =>
            Settles(runs'[i].log) # Settles(runs[i].log)]_vars

C18_Witness ==
  \E i, j \in 1..Len(runs) :
    /\ i < j
    /\ runs[i].file # runs[j].file
    /\ runs[i].inserted
    /\ runs[j].pc \in {"analyzing", "optimizing", "visualizing"}
    /\ media = MediaState(runs[j].file)
    /\ thumbnailConcepts = ConceptsOf(runs[i].analysisRes)
    /\ history[1].analysis = runs[i].analysisRes

\* the runs and platform changes awaiting a gateway response
AwaitingRuns == {i \in 1..Len(runs) : runs[i].pc \in {"analyzing", "optimizing", "visualizing"}}

AwaitingChanges == {j \in 1..Len(changes) : changes[j].pc = "optimizing"}

\* C19: while the phase is idle, no pipeline run and no platform change is
\* awaiting a gateway response, overlapping operations included.
C19_IdleMeansNothingPending ==
  loadingStep = "idle" => (AwaitingRuns = {} /\ AwaitingChanges = {})

\* C20: whenever no operation is in flight and an SEO package is held, it is
\* the package generated from the held analysis for the selected platform.
C20_QuiescentSeoMatchesPlatform ==
  (/\ AwaitingRuns = {}
   /\ AwaitingChanges = {}
   /\ \A i \in 1..Len(runs) : runs[i].pc # "reading"
   /\ \A k \in 1..Len(forges) : forges[k].pc # "rendering"
   /\ app = "ready"
   /\ Truthy(seo)) =>
     (HasKeyScenes(analysis) /\ seo = SeoOf(analysis, platform))
====
